---- MODULE Spec2Model ----
(***************************************************************************)
(* SlackMarkdownConverter (src/endpoints/slack.py): the Markdown to mrkdwn *)
(* converter, modelled on character sequences.  A text is a sequence of    *)
(* one-character strings; NL is the line break.  A character outside ASCII *)
(* is written by its code point name ("U+2022") and is one element.        *)
(* SlackEndpoint._invoke, the handler of the Slack event requests, follows *)
(* the converter: its settings, the plugin storage, the calls it makes to  *)
(* Slack, to the storage and to the app, and the locals of a running call. *)
(***************************************************************************)
EXTENDS Integers, Sequences, FiniteSets, TLC

VARIABLES
    encoding,           \* self.encoding
    in_code_block,      \* self.in_code_block
    table_replacements, \* self.table_replacements: insertion-ordered dict
    hashseed,           \* the interpreter's string-hash seed (fixed per process)
    suite,              \* which set of input lines this run draws from
    pc,                 \* position of the running convert call
    arg,                \* the argument the caller passed to convert
    markdown,           \* convert's local `markdown` (rebound at lines 91, 95)
    lines,              \* convert's local `lines`
    idx,                \* position of the list comprehension of line 98
    converted_lines,    \* the lines converted so far
    ret,                \* the value convert returned
    fellback,           \* the call returned through the except branch
    escaped,            \* an exception left convert
    entry_flag,         \* self.in_code_block as the running call found it
    settings,           \* the endpoint's settings
    storage,            \* self.session.storage: key -> bytes
    calls,              \* the calls made to Slack, the storage and the app
    delivered,          \* the requests Slack has sent so far
    next_id,            \* the number of the app's next new conversation
    request,            \* the request _invoke is running on
    epc,                \* position of the running _invoke call
    channel,            \* _invoke's local `channel`
    thread_ts,          \* _invoke's local `thread_ts`
    conversation_id,    \* _invoke's local `conversation_id`
    thread_history,     \* _invoke's local `thread_history`
    answer,             \* _invoke's local `answer`
    converted_answer,   \* _invoke's local `converted_answer`
    chunks,             \* _invoke's local `chunks`
    chunk_i,            \* position of the loop of line 489
    reply_broadcast,    \* _invoke's local `reply_broadcast`
    response,           \* the Response _invoke returned
    instances,          \* the converters made by the calls that run together
    workers             \* the locals of each of the calls that run together

converter_vars ==
    <<encoding, in_code_block, table_replacements, hashseed, pc, arg,
      markdown, lines, idx, converted_lines, ret, fellback, escaped,
      entry_flag>>

endpoint_vars ==
    <<settings, storage, calls, delivered, next_id, request, epc, channel,
      thread_ts, conversation_id, thread_history, answer, converted_answer,
      chunks, chunk_i, reply_broadcast, response>>

handler_vars == <<instances, workers>>

vars == <<converter_vars, suite, endpoint_vars, handler_vars>>

----------------------------------------------------------------------------
(* Characters and Python's str methods *)

NL == "\n"

\* str.strip()/rstrip() and the regex class \s: the whitespace of the model.
Whitespace == {" ", NL}

\* \d of the ordered-list pattern
Digits == {"0", "1", "2", "3", "4", "5", "6", "7", "8", "9"}

\* \w of the fence pattern: the letters, digits and underscore of the model
WordChars ==
    Digits \cup
    {"a", "b", "h", "p", "x", "y", "X", "_", "A", "B", "C", "D", "E", "H", "I",
     "L", "N", "O", "P", "R", "S", "T", "U+00E9"}

\* The characters the rules insert that ASCII cannot encode.
BULLET == "U+2022"
BALLOT == "U+2610"
CHECKED == "U+2611"
HLINE == "U+2500"
NonAscii == {BULLET, BALLOT, CHECKED, HLINE, "U+00E9"}

\* A lone surrogate: a character of a str that no codec of the model encodes
SURROGATE == "U+D800"

\* None, the other value `not markdown` accepts
None == <<"None">>

Max(S) == CHOOSE x \in S : \A y \in S : y <= x
Min(S) == CHOOSE x \in S : \A y \in S : x <= y

\* s[a..b-1], empty when b <= a (Python's s[a:b], 1-based)
Slice(s, a, b) == IF b <= a THEN <<>> ELSE SubSeq(s, a, b - 1)

\* s[a:]
From(s, a) == Slice(s, a, Len(s) + 1)

\* s.startswith(t) at position p
At(s, p, t) ==
    /\ p >= 1
    /\ p + Len(t) - 1 <= Len(s)
    /\ \A k \in 1..Len(t) : s[p + k - 1] = t[k]

StartsWith(s, t) == At(s, 1, t)
EndsWith(s, t) == Len(t) <= Len(s) /\ At(s, Len(s) - Len(t) + 1, t)

\* t in s
Contains(s, t) == \E p \in 1..(Len(s) + 1) : At(s, p, t)

\* s.lstrip(chars), s.rstrip(chars), s.strip(chars)
LStripChars(s, chars) ==
    LET keep == {p \in 1..Len(s) : s[p] \notin chars}
    IN  IF keep = {} THEN <<>> ELSE From(s, Min(keep))

RStripChars(s, chars) ==
    LET keep == {p \in 1..Len(s) : s[p] \notin chars}
    IN  IF keep = {} THEN <<>> ELSE Slice(s, 1, Max(keep) + 1)

StripChars(s, chars) == LStripChars(RStripChars(s, chars), chars)

Strip(s) == StripChars(s, Whitespace)
RStrip(s) == RStripChars(s, Whitespace)

\* s.split(c) for a one-character separator: n separators give n+1 pieces
RECURSIVE Split(_, _)
Split(s, c) ==
    LET hits == {p \in 1..Len(s) : s[p] = c}
    IN  IF hits = {} THEN <<s>>
        ELSE <<Slice(s, 1, Min(hits))>> \o Split(From(s, Min(hits) + 1), c)

\* sep.join(parts)
RECURSIVE Join(_, _)
Join(parts, sep) ==
    IF parts = <<>> THEN <<>>
    ELSE IF Len(parts) = 1 THEN parts[1]
    ELSE parts[1] \o sep \o Join(Tail(parts), sep)

\* s.replace(old, new): every non-overlapping occurrence, left to right
RECURSIVE Replace(_, _, _)
Replace(s, old, new) ==
    LET hits == {p \in 1..Len(s) : At(s, p, old)}
    IN  IF old = <<>> \/ hits = {} THEN s
        ELSE Slice(s, 1, Min(hits)) \o new
             \o Replace(From(s, Min(hits) + Len(old)), old, new)

----------------------------------------------------------------------------
(* _convert_tables: the table pattern and convert_table *)

TABLE_PREFIX ==
    <<"%", "%", "T", "A", "B", "L", "E", "_", "P", "L", "A", "C", "E", "H", "O",
      "L", "D", "E", "R", "_">>

PERCENTS == <<"%", "%">>

\* ord(c) of the characters hashed
Ord(c) ==
    CASE c = NL -> 10
      [] c = " " -> 32
      [] c = "-" -> 45
      [] c = ":" -> 58
      [] c = "a" -> 97
      [] c = "b" -> 98
      [] c = "|" -> 124
      [] OTHER -> 63

\* The width of the model's string hash: values are 0 .. HashMod-1.
HashMod == 2

\* hash(s): a seeded polynomial hash standing for the interpreter's seeded
\* string hash, which is fixed within a process and differs between them.
RECURSIVE HashFrom(_, _, _)
HashFrom(h, seed, s) ==
    IF s = <<>> THEN h
    ELSE HashFrom((h * (seed + 2) + Ord(Head(s))) % HashMod, seed, Tail(s))

Hash(seed, s) == HashFrom(seed % HashMod, seed, s)

\* str(n) for a hash value
DigitChars == <<"0", "1", "2", "3", "4", "5", "6", "7", "8", "9">>

RECURSIVE Str(_)
Str(n) == IF n < 10 THEN <<DigitChars[n + 1]>> ELSE Str(n \div 10) \o <<DigitChars[(n % 10) + 1]>>

\* ^ and $ under re.MULTILINE
AtLineStart(s, p) == p = 1 \/ (p >= 2 /\ p <= Len(s) + 1 /\ s[p - 1] = NL)
AtLineEnd(s, p) == p = Len(s) + 1 \/ (p >= 1 /\ p <= Len(s) /\ s[p] = NL)

\* \s*$ from position i: every position at which it can end.  The engine tries
\* the longest first.
WsEnds(s, i) ==
    {e \in i..(Len(s) + 1) :
        AtLineEnd(s, e) /\ \A k \in i..(e - 1) : s[k] \in Whitespace}

\* The end of the line that holds position p
LineEnd(s, p) == Min({e \in p..(Len(s) + 1) : AtLineEnd(s, e)})

\* \|(.+)\|\s*$ and \|.+\|\s*$ at p: the positions of the closing bar
RowCloses(s, p) ==
    IF p <= Len(s) /\ s[p] = "|"
    THEN {q \in (p + 2)..(LineEnd(s, p) - 1) : s[q] = "|" /\ WsEnds(s, q + 1) # {}}
    ELSE {}

\* \|[-:| ]+\|\s*$ at p: the positions of the closing bar
SepCloses(s, p) ==
    {q \in RowCloses(s, p) : \A k \in (p + 1)..(q - 1) : s[k] \in {"-", ":", "|", " "}}

\* Where a row can end: greedy .+ takes the last closing bar, then \s* each end
RowEnds(s, p) == UNION {WsEnds(s, q + 1) : q \in RowCloses(s, p)}

\* The end the engine reaches first: the last closing bar, the longest \s*
FirstEnd(s, closes) == Max(WsEnds(s, Max(closes) + 1))

\* (\n^\|.+\|\s*$)* from position e: greedy, one row at a time
RECURSIVE DataEnd(_, _)
DataEnd(s, e) ==
    IF e <= Len(s) /\ s[e] = NL /\ RowCloses(s, e + 1) # {}
    THEN DataEnd(s, FirstEnd(s, RowCloses(s, e + 1)))
    ELSE e

\* table_pattern matched at p: the position after the match, 0 when it fails.
\* The header's \s* backtracks until a separator row follows its line break.
TableMatchEnd(s, p) ==
    IF ~AtLineStart(s, p) THEN 0
    ELSE LET hs == {e \in RowEnds(s, p) :
                       e <= Len(s) /\ s[e] = NL /\ SepCloses(s, e + 1) # {}}
         IN  IF hs = {} THEN 0
             ELSE DataEnd(s, FirstEnd(s, SepCloses(s, Max(hs) + 1)))

\* [cell.strip() for cell in line.strip("|").split("|")]
Cells(line) ==
    LET cells == Split(StripChars(line, {"|"}), "|")
    IN  [k \in 1..Len(cells) |-> Strip(cells[k])]

Bold(cell) == <<"*">> \o cell \o <<"*">>

\* convert_table, lines 124-143: the rendered table
RenderTable(original_table) ==
    LET table_lines == Split(Strip(original_table), NL)
        header_line == table_lines[1]
        data_lines == IF Len(table_lines) > 2
                      THEN SubSeq(table_lines, 3, Len(table_lines)) ELSE <<>>
        headers == Cells(header_line)
        rows == [k \in 1..Len(data_lines) |-> Cells(data_lines[k])]
        JoinCells(row) == Join(row, <<" ", "|", " ">>)
        result == <<JoinCells([k \in 1..Len(headers) |-> Bold(headers[k])])>>
                  \o [k \in 1..Len(rows) |-> JoinCells(rows[k])]
    IN  Join(result, <<NL>>)

\* convert_table, line 144: the placeholder token
Placeholder(seed, original_table) ==
    TABLE_PREFIX \o Str(Hash(seed, original_table)) \o PERCENTS

\* self.table_replacements[placeholder] = table (a dict keeps a key's first
\* position and its last value)
DictSet(d, key, value) ==
    IF \E k \in 1..Len(d) : d[k].placeholder = key
    THEN [k \in 1..Len(d) |->
            IF d[k].placeholder = key THEN [placeholder |-> key, table |-> value]
            ELSE d[k]]
    ELSE Append(d, [placeholder |-> key, table |-> value])

\* table_pattern.sub(convert_table, markdown) from position p on: the text it
\* returns and the replacements it stores, given those stored so far.
RECURSIVE TableSub(_, _, _, _)
TableSub(seed, s, p, d) ==
    LET hits == {q \in p..Len(s) : TableMatchEnd(s, q) > 0}
    IN  IF hits = {} THEN [text |-> From(s, p), repl |-> d]
        ELSE LET q == Min(hits)
                 original_table == Slice(s, q, TableMatchEnd(s, q))
                 placeholder == Placeholder(seed, original_table)
                 rest == TableSub(seed, s, TableMatchEnd(s, q),
                                  DictSet(d, placeholder, RenderTable(original_table)))
             IN  [text |-> Slice(s, p, q) \o placeholder \o rest.text,
                  repl |-> rest.repl]

_convert_tables(seed, md, d) == TableSub(seed, md, 1, d)

----------------------------------------------------------------------------
(* _convert_line: the fence pattern, the ordered rules of self.patterns and *)
(* the triple-emphasis sentinels                                            *)

triple_start ==
    <<"%", "%", "B", "O", "L", "D", "I", "T", "A", "L", "I", "C", "_", "S", "T",
      "A", "R", "T", "%", "%">>

triple_end ==
    <<"%", "%", "B", "O", "L", "D", "I", "T", "A", "L", "I", "C", "_", "E", "N",
      "D", "%", "%">>

\* The backtick, written by its code point
BACKTICK == "U+0060"

FENCE == <<BACKTICK, BACKTICK, BACKTICK>>

\* r"^```(\w*)$" matches the line
FenceMatch(line) ==
    /\ StartsWith(line, FENCE)
    /\ \A k \in 4..Len(line) : line[k] \in WordChars

\* code_block_match.group(1)
FenceLanguage(line) == From(line, 4)

\* line 160: the placeholder test
LooksLikePlaceholder(line) == StartsWith(line, TABLE_PREFIX) /\ EndsWith(line, PERCENTS)

\* The result of one match attempt: `stop` is the position after the match
\* (0: no match at this position), `out` the replacement text.
NoMatch == [stop |-> 0, out |-> <<>>]
Matched(e, text) == [stop |-> e, out |-> text]

\* The number of leading whitespace characters: the greedy (\s*) after ^
Indent(s) ==
    LET keep == {p \in 1..Len(s) : s[p] \notin Whitespace}
    IN  IF keep = {} THEN Len(s) ELSE Min(keep) - 1

\* The first position r >= a at which t occurs in s, 0 when there is none
Find(s, a, t) ==
    LET hits == {r \in a..Len(s) : At(s, r, t)}
    IN  IF hits = {} THEN 0 ELSE Min(hits)

\* ^(\s*)<marker>(.+) replaced by \1<glyphs>\3: the list rules
ListItem(s, p, marker, glyphs) ==
    LET k == Indent(s)
    IN  IF p = 1 /\ At(s, k + 1, marker) /\ Len(s) >= k + Len(marker) + 1
        THEN Matched(Len(s) + 1,
                     Slice(s, 1, k + 1) \o glyphs \o From(s, k + Len(marker) + 1))
        ELSE NoMatch

\* ^(\s*)(\d+)\. (.+) replaced by \1\2. \3
OrderedItem(s, p) ==
    LET k == Indent(s)
        nondigit == {q \in (k + 1)..Len(s) : s[q] \notin Digits}
        d == IF nondigit = {} THEN Len(s) + 1 ELSE Min(nondigit)
    IN  IF p = 1 /\ d > k + 1 /\ At(s, d, <<".", " ">>) /\ Len(s) >= d + 2
        THEN Matched(Len(s) + 1,
                     Slice(s, 1, k + 1) \o Slice(s, k + 1, d) \o <<".", " ">>
                     \o From(s, d + 2))
        ELSE NoMatch

\* !\[.*?\]\((.+?)\) replaced by <\1>
Image(s, p) ==
    LET j == Find(s, p + 2, <<"]", "(">>)
        r == IF j = 0 THEN 0 ELSE Find(s, j + 3, <<")">>)
    IN  IF At(s, p, <<"!", "[">>) /\ j > 0 /\ r > 0
        THEN Matched(r + 1, <<"<">> \o Slice(s, j + 2, r) \o <<">">>)
        ELSE NoMatch

\* (?<!\*)\*([^*\n]+?)\*(?!\*) replaced by _\1_
Italic(s, p) ==
    LET r == Find(s, p + 1, <<"*">>)
    IN  IF /\ At(s, p, <<"*">>)
           /\ ~At(s, p - 1, <<"*">>)
           /\ r >= p + 2
           /\ ~At(s, r + 1, <<"*">>)
        THEN Matched(r + 1, <<"_">> \o Slice(s, p + 1, r) \o <<"_">>)
        ELSE NoMatch

\* ^#{n} (.+)$ replaced by *\1*
Heading(s, p, n) ==
    LET marker == [k \in 1..(n + 1) |-> IF k <= n THEN "#" ELSE " "]
    IN  IF p = 1 /\ StartsWith(s, marker) /\ Len(s) >= n + 2
        THEN Matched(Len(s) + 1, <<"*">> \o From(s, n + 2) \o <<"*">>)
        ELSE NoMatch

\* (^|\s)~\*\*(.+?)\*\*(\s|$) replaced by \1 *\2* \3
TildeBold(s, p) ==
    LET open == <<"~", "*", "*">>
        \* the alternative (^|\s) takes: ^ first, then \s
        t == IF p = 1 /\ At(s, 1, open) THEN 1
             ELSE IF p <= Len(s) /\ s[p] \in Whitespace /\ At(s, p + 1, open)
             THEN p + 1 ELSE 0
        closes == {r \in (t + 4)..Len(s) :
                      /\ At(s, r, <<"*", "*">>)
                      /\ (r + 2 = Len(s) + 1 \/ (r + 2 <= Len(s) /\ s[r + 2] \in Whitespace))}
        r == IF closes = {} THEN 0 ELSE Min(closes)
        g3 == IF r + 2 <= Len(s) THEN <<s[r + 2]>> ELSE <<>>
    IN  IF t > 0 /\ r > 0
        THEN Matched(r + 2 + Len(g3),
                     Slice(s, p, t) \o <<" ", "*">> \o Slice(s, t + 3, r)
                     \o <<"*", " ">> \o g3)
        ELSE NoMatch

\* (?<!\*)\*\*(.+?)\*\*(?!\*) replaced by *\1*
BoldRule(s, p) ==
    LET closes == {r \in (p + 3)..Len(s) :
                      At(s, r, <<"*", "*">>) /\ ~At(s, r + 2, <<"*">>)}
        r == IF closes = {} THEN 0 ELSE Min(closes)
    IN  IF At(s, p, <<"*", "*">>) /\ ~At(s, p - 1, <<"*">>) /\ r > 0
        THEN Matched(r + 2, <<"*">> \o Slice(s, p + 2, r) \o <<"*">>)
        ELSE NoMatch

\* <d>(.+?)<d> replaced by <l>\1<r> for a delimiter d: __, `, ~~
Delimited(s, p, d, l, r) ==
    LET e == Find(s, p + Len(d) + 1, d)
    IN  IF At(s, p, d) /\ e > 0
        THEN Matched(e + Len(d), l \o Slice(s, p + Len(d), e) \o r)
        ELSE NoMatch

\* \[(.+?)\]\((.+?)\) replaced by <\2|\1>
Link(s, p) ==
    LET j == Find(s, p + 2, <<"]", "(">>)
        r == IF j = 0 THEN 0 ELSE Find(s, j + 3, <<")">>)
    IN  IF At(s, p, <<"[">>) /\ j > 0 /\ r > 0
        THEN Matched(r + 1,
                     <<"<">> \o Slice(s, j + 2, r) \o <<"|">> \o Slice(s, p + 1, j)
                     \o <<">">>)
        ELSE NoMatch

\* ^> (.+) replaced by > \1
Blockquote(s, p) ==
    IF p = 1 /\ StartsWith(s, <<">", " ">>) /\ Len(s) >= 3
    THEN Matched(Len(s) + 1, <<">", " ">> \o From(s, 3))
    ELSE NoMatch

HRULE == [k \in 1..10 |-> HLINE]

\* ^(---|\*\*\*|___)$ replaced by the rule glyphs
HorizontalLine(s, p) ==
    IF p = 1 /\ s \in {<<"-", "-", "-">>, <<"*", "*", "*">>, <<"_", "_", "_">>}
    THEN Matched(Len(s) + 1, HRULE)
    ELSE NoMatch

\* (?<!\*)\*\*\*([^*\n]+?)\*\*\*(?!\*) replaced by the sentinels around \1
TripleProtect(s, p) ==
    LET r == Find(s, p + 3, <<"*">>)
    IN  IF /\ At(s, p, <<"*", "*", "*">>)
           /\ ~At(s, p - 1, <<"*">>)
           /\ r >= p + 4
           /\ At(s, r, <<"*", "*", "*">>)
           /\ ~At(s, r + 3, <<"*">>)
        THEN Matched(r + 3, triple_start \o Slice(s, p + 3, r) \o triple_end)
        ELSE NoMatch

\* triple_start(.*?)triple_end replaced by *_\1_*
TripleRestore(s, p) ==
    LET e == Find(s, p + Len(triple_start), triple_end)
    IN  IF At(s, p, triple_start) /\ e > 0
        THEN Matched(e + Len(triple_end),
                     <<"*", "_">> \o Slice(s, p + Len(triple_start), e) \o <<"_", "*">>)
        ELSE NoMatch

\* The rules with the italic rule moved behind the bold rules
PatternsItalicLast ==
    <<"unchecked", "checked", "unordered", "ordered", "image",
      "h6", "h5", "h4", "h3", "h2", "h1", "tildebold", "bold", "underline",
      "italic", "link", "code", "blockquote", "hr", "strike">>

\* self.patterns, in order (lines 33-72)
patterns ==
    <<"unchecked", "checked", "unordered", "ordered", "image", "italic",
      "h6", "h5", "h4", "h3", "h2", "h1", "tildebold", "bold", "underline",
      "link", "code", "blockquote", "hr", "strike">>

\* One match attempt of a rule at position p of the line
MatchAt(rule, s, p) ==
    CASE rule = "unchecked" ->
            ListItem(s, p, <<"-", " ", "[", " ", "]", " ">>,
                     <<BULLET, " ", BALLOT, " ">>)
      [] rule = "checked" ->
            LET lower == ListItem(s, p, <<"-", " ", "[", "x", "]", " ">>,
                                  <<BULLET, " ", CHECKED, " ">>)
            IN  IF lower.stop > 0 THEN lower
                ELSE ListItem(s, p, <<"-", " ", "[", "X", "]", " ">>,
                              <<BULLET, " ", CHECKED, " ">>)
      [] rule = "unordered" -> ListItem(s, p, <<"-", " ">>, <<BULLET, " ">>)
      [] rule = "ordered" -> OrderedItem(s, p)
      [] rule = "image" -> Image(s, p)
      [] rule = "italic" -> Italic(s, p)
      [] rule = "h6" -> Heading(s, p, 6)
      [] rule = "h5" -> Heading(s, p, 5)
      [] rule = "h4" -> Heading(s, p, 4)
      [] rule = "h3" -> Heading(s, p, 3)
      [] rule = "h2" -> Heading(s, p, 2)
      [] rule = "h1" -> Heading(s, p, 1)
      [] rule = "tildebold" -> TildeBold(s, p)
      [] rule = "bold" -> BoldRule(s, p)
      [] rule = "underline" -> Delimited(s, p, <<"_", "_">>, <<"*">>, <<"*">>)
      [] rule = "link" -> Link(s, p)
      [] rule = "code" -> Delimited(s, p, <<BACKTICK>>, <<BACKTICK>>, <<BACKTICK>>)
      [] rule = "blockquote" -> Blockquote(s, p)
      [] rule = "hr" -> HorizontalLine(s, p)
      [] rule = "strike" -> Delimited(s, p, <<"~", "~">>, <<"~">>, <<"~">>)
      [] rule = "triple_protect" -> TripleProtect(s, p)
      [] rule = "triple_restore" -> TripleRestore(s, p)

\* pattern.sub(replacement, line): the matches of the rule, left to right,
\* each search resuming after the previous match
RECURSIVE Sub(_, _, _)
Sub(rule, s, p) ==
    LET hits == {q \in p..Len(s) : MatchAt(rule, s, q).stop > 0}
    IN  IF hits = {} THEN From(s, p)
        ELSE LET m == MatchAt(rule, s, Min(hits))
             IN  Slice(s, p, Min(hits)) \o m.out \o Sub(rule, s, m.stop)

\* lines 180-181: for pattern, replacement in self.patterns (no rule matches
\* the empty line)
RECURSIVE ApplyPatterns(_, _)
ApplyPatterns(rules, line) ==
    IF rules = <<>> \/ line = <<>> THEN line
    ELSE ApplyPatterns(Tail(rules), Sub(Head(rules), line, 1))

\* The rewrite without the rstrip of line 190
RewriteKeepTrailing(line) ==
    Sub("triple_restore", ApplyPatterns(patterns, Sub("triple_protect", line, 1)), 1)

\* lines 174-190: the rewrite of a line outside a code block
Rewrite(line) ==
    RStrip(Sub("triple_restore", ApplyPatterns(patterns, Sub("triple_protect", line, 1)), 1))

\* A line engine that emits every fence line with its tag, the closing one
\* too: what the test of self.in_code_block at line 166 rules out
ConvertLineKeepTag(flag, line) ==
    IF LooksLikePlaceholder(line)
    THEN [line |-> line, in_code_block |-> flag]
    ELSE IF FenceMatch(line)
    THEN [line |-> FENCE \o FenceLanguage(line), in_code_block |-> ~flag]
    ELSE IF flag
    THEN [line |-> line, in_code_block |-> flag]
    ELSE [line |-> Rewrite(line), in_code_block |-> flag]

\* _convert_line(line) with self.in_code_block = flag: the line returned and
\* the value of self.in_code_block afterwards
_convert_line(flag, line) ==
    IF LooksLikePlaceholder(line)
    THEN [line |-> line, in_code_block |-> flag]
    ELSE IF FenceMatch(line)
    THEN [line |-> IF ~flag /\ FenceLanguage(line) # <<>>
                   THEN FENCE \o FenceLanguage(line) ELSE FENCE,
          in_code_block |-> ~flag]
    ELSE IF flag
    THEN [line |-> line, in_code_block |-> flag]
    ELSE [line |-> Rewrite(line), in_code_block |-> flag]

----------------------------------------------------------------------------
(* convert *)

\* A test that lets the empty string through to the pipeline
FalsyNoneOnly(md) == md = None

\* line 87: not markdown
Falsy(md) == md = <<>> \/ md = None

\* lines 101-102: for placeholder, table in self.table_replacements.items()
RECURSIVE Restore(_, _)
Restore(result, d) ==
    IF d = <<>> THEN result
    ELSE Restore(Replace(result, Head(d).placeholder, Head(d).table), Tail(d))

\* line 104: result.encode(self.encoding) succeeds
Encodable(enc, result) ==
    /\ \A k \in 1..Len(result) : result[k] # SURROGATE
    /\ enc = "utf-8" \/ \A k \in 1..Len(result) : result[k] \notin NonAscii

\* An except branch that raises again instead of returning
ExceptReraise(md) == [ret |-> md, escaped |-> TRUE]

\* lines 105-107: the except branch returns the local `markdown`
Except(md) == [ret |-> md, escaped |-> FALSE]

\* line 98: the list comprehension moves to the next line
NextLine(i) == i + 1

----------------------------------------------------------------------------
(* The inputs *)

\* The longest input, in lines
MaxLines == 4

\* The longest input of the suite checked for termination, in lines
MaxLinesMixed == 3

\* The lines the inputs of a suite are made of
Pool(name) ==
    CASE name = "fence" ->
            {FENCE, FENCE \o <<"p", "y">>, <<"|", "-", "|">>, <<"#", " ", "h", " ">>}
      [] name = "plain" ->
            {<<"a", " ">>, <<" ", "U+00E9">>, <<>>, FENCE}
      [] name = "mixed" ->
            {<<"-", " ", "a">>, <<SURROGATE, " ">>, FENCE, <<"|", "a", "|">>,
             <<"|", "-", "|">>}
      [] name = "tokens" ->
            {<<"[", "*", "*", "*", "x", "]", "(", "a", "*", "*", "*", ")">>,
             <<"|", "-", "|">>,
             TABLE_PREFIX \o <<"1">> \o PERCENTS,
             TABLE_PREFIX \o <<"*", "*", "b", "*", "*">> \o PERCENTS}
      [] name = "emphasis" ->
            {<<"*", "*", "b", "*", "*", " ", "*", "i", "*">>,
             <<"*", "*", "*", "x", "*", "*", "*", " ", "*", "i", "*">>,
             <<"*", "*", "b", " ", "*", "i", "*", " ", "b", "*", "*">>,
             <<"#", " ", "h">>}
      [] name = "tables" ->
            {<<"|", "a", "|", "b", "|", " ">>, <<"|", "a", "|">>,
             <<"|", "-", "|">>, <<>>, <<"x">>}

LinesOf(name) == IF name = "mixed" THEN MaxLinesMixed ELSE MaxLines

\* The encodings a suite constructs converters with
Encodings(name) ==
    IF name \in {"mixed", "plain"} THEN {"utf-8", "ascii"} ELSE {"utf-8"}

\* The hash seeds of a suite: every seed where the tokens are looked at
Seeds(name) == IF name = "tokens" THEN 0..(HashMod - 1) ELSE {0}

Texts(pool, n) ==
    {Join(ls, <<NL>>) : ls \in UNION {[1..k -> pool] : k \in 1..n}}

Inputs(name) == Texts(Pool(name), LinesOf(name)) \cup {<<>>, None}

----------------------------------------------------------------------------
(* The converter as a state machine *)

Idle ==
    /\ pc = "idle"
    /\ arg = <<>>
    /\ markdown = <<>>
    /\ lines = <<>>
    /\ idx = 1
    /\ converted_lines = <<>>
    /\ ret = <<>>
    /\ fellback = FALSE
    /\ escaped = FALSE
    /\ entry_flag = FALSE

\* No request is being handled: _invoke has no locals
NoRequest == [n |-> 0]
NoResponse == [status |-> 0]

EndpointIdle ==
    /\ epc = "idle"
    /\ request = NoRequest
    /\ channel = <<>>
    /\ thread_ts = <<>>
    /\ conversation_id = None
    /\ thread_history = <<>>
    /\ answer = None
    /\ converted_answer = <<>>
    /\ chunks = <<>>
    /\ chunk_i = 0
    /\ reply_broadcast = FALSE
    /\ response = NoResponse

\* An endpoint that has received nothing yet, with every setting off
EndpointUnused ==
    /\ settings = [allow_retry |-> FALSE, allowed_channel |-> <<>>,
                   first_reply_broadcast |-> FALSE]
    /\ storage = <<>>
    /\ calls = <<>>
    /\ delivered = <<>>
    /\ next_id = 1
    /\ EndpointIdle

\* The most calls of _invoke that run at the same time
MaxHandlers == 2

Handlers == 1..MaxHandlers

\* A call that has not got the app's answer yet: no converter, no locals
Unstarted ==
    [pc |-> "start", answer |-> None, converter |-> 0, markdown |-> <<>>,
     lines |-> <<>>, idx |-> 1, converted_lines |-> <<>>, ret |-> <<>>]

NoHandlers ==
    /\ instances = <<>>
    /\ workers = [w \in Handlers |-> Unstarted]

\* __init__ (lines 22-31), in a process whose hash seed is drawn at its start
InitWith(name) ==
    /\ suite = name
    /\ hashseed \in Seeds(name)
    /\ encoding \in Encodings(name)
    /\ in_code_block = FALSE
    /\ table_replacements = <<>>
    /\ Idle
    /\ EndpointUnused
    /\ NoHandlers

Init == InitWith("fence")

\* SlackMarkdownConverter(encoding): a new instance replaces the old one
New(enc) ==
    /\ pc = "idle"
    /\ encoding' = enc
    /\ in_code_block' = FALSE
    /\ table_replacements' = <<>>
    /\ UNCHANGED <<hashseed, suite, pc, arg, markdown, lines, idx,
                   converted_lines, ret, fellback, escaped, entry_flag>>
    /\ UNCHANGED <<endpoint_vars, handler_vars>>

\* convert(s), lines 87-97: the early return, or strip, reset of the
\* replacements, table extraction and split
Call(s) ==
    /\ pc = "idle"
    /\ arg' = s
    /\ IF Falsy(s)
       THEN /\ ret' = <<>>
            /\ pc' = "done"
            /\ UNCHANGED <<markdown, lines, table_replacements>>
       ELSE LET t == _convert_tables(hashseed, Strip(s), <<>>)
            IN  /\ markdown' = t.text
                /\ table_replacements' = t.repl
                /\ lines' = Split(t.text, NL)
                /\ pc' = "lines"
                /\ ret' = ret
    /\ idx' = 1
    /\ converted_lines' = <<>>
    /\ entry_flag' = in_code_block
    /\ UNCHANGED <<encoding, in_code_block, hashseed, suite, fellback, escaped>>
    /\ UNCHANGED <<endpoint_vars, handler_vars>>

\* line 98: self._convert_line(line) for the next line
ConvertLine ==
    /\ pc = "lines"
    /\ idx <= Len(lines)
    /\ LET r == _convert_line(in_code_block, lines[idx])
       IN  /\ converted_lines' = Append(converted_lines, r.line)
           /\ in_code_block' = r.in_code_block
    /\ idx' = NextLine(idx)
    /\ UNCHANGED <<encoding, table_replacements, hashseed, suite, pc, arg,
                   markdown, lines, ret, fellback, escaped, entry_flag>>
    /\ UNCHANGED <<endpoint_vars, handler_vars>>

\* lines 99-107: join, restore the placeholders, encode and return; a failed
\* encode is caught and the except branch returns
Return ==
    /\ pc = "lines"
    /\ idx > Len(lines)
    /\ LET result == Restore(Join(converted_lines, <<NL>>), table_replacements)
           handled == Except(markdown)
       IN  IF Encodable(encoding, result)
           THEN /\ ret' = result
                /\ pc' = "done"
                /\ UNCHANGED <<fellback, escaped>>
           ELSE /\ ret' = handled.ret
                /\ fellback' = ~handled.escaped
                /\ escaped' = handled.escaped
                /\ pc' = IF handled.escaped THEN "raised" ELSE "done"
    /\ UNCHANGED <<encoding, in_code_block, table_replacements, hashseed, suite,
                   arg, markdown, lines, idx, converted_lines, entry_flag>>
    /\ UNCHANGED <<endpoint_vars, handler_vars>>

\* The caller takes the result; convert's locals are gone
Discard ==
    /\ pc = "done"
    /\ pc' = "idle"
    /\ arg' = <<>>
    /\ markdown' = <<>>
    /\ lines' = <<>>
    /\ idx' = 1
    /\ converted_lines' = <<>>
    /\ ret' = <<>>
    /\ fellback' = FALSE
    /\ entry_flag' = FALSE
    /\ UNCHANGED <<encoding, in_code_block, table_replacements, hashseed, suite,
                   escaped>>
    /\ UNCHANGED <<endpoint_vars, handler_vars>>

Next ==
    \/ \E enc \in Encodings(suite) : New(enc)
    \/ pc = "idle" /\ \E s \in Inputs(suite) : Call(s)
    \/ ConvertLine
    \/ Return
    \/ Discard

Spec == Init /\ [][Next]_vars

InitPlain == InitWith("plain")
SpecPlain == InitPlain /\ [][Next]_vars

InitTokens == InitWith("tokens")
SpecTokens == InitTokens /\ [][Next]_vars

InitTables == InitWith("tables")
SpecTables == InitTables /\ [][Next]_vars

InitEmphasis == InitWith("emphasis")
SpecEmphasis == InitEmphasis /\ [][Next]_vars

InitMixed == InitWith("mixed")

\* The step of ConvertLine, told by what it does to idx
ComprehensionMoves == pc = "lines" /\ idx <= Len(lines) /\ idx' = NextLine(idx)

\* The step of Return, told by what it does to pc
CallReturns == pc = "lines" /\ idx > Len(lines) /\ pc' \in {"done", "raised"}

\* convert is synchronous, straight-line code: once called, each of its steps
\* is taken.  The two fairness conditions are those of ConvertLine and of
\* Return: under Next only ConvertLine moves idx and only Return leaves
\* "lines", and each is enabled exactly where its step is.
SpecMixed ==
    InitMixed /\ [][Next]_vars /\ WF_idx(ComprehensionMoves) /\ WF_pc(CallReturns)

----------------------------------------------------------------------------
(* SlackEndpoint._invoke: its decisions *)

\* d.get(key) is not None, for the dicts of a request
Has(d, key) == key \in DOMAIN d

RETRY_NUM == "X-Slack-Retry-Num"
RETRY_REASON == "X-Slack-Retry-Reason"

\* int(s) for a string of decimal digits
DigitValue(c) == CHOOSE d \in 0..9 : DigitChars[d + 1] = c

RECURSIVE ParseInt(_)
ParseInt(s) ==
    IF s = <<>> THEN 0
    ELSE ParseInt(SubSeq(s, 1, Len(s) - 1)) * 10 + DigitValue(s[Len(s)])

\* A retry test that looks at the reason only
IgnoredTimeoutOnly(s, headers) ==
    /\ ~s.allow_retry
    /\ Has(headers, RETRY_REASON)
    /\ headers[RETRY_REASON] = "http_timeout"

\* lines 199-203: the request is a retry to be ignored
IgnoredRetry(s, headers) ==
    /\ ~s.allow_retry
    /\ \/ Has(headers, RETRY_REASON) /\ headers[RETRY_REASON] = "http_timeout"
       \/ Has(headers, RETRY_NUM) /\ ParseInt(headers[RETRY_NUM]) > 0

\* int(s) returns: s is a string of decimal digits.  Of the header values of
\* the suites ("0", "1", ..., "x") these are the ones int accepts.
IsDecimal(s) == s # <<>> /\ \A k \in 1..Len(s) : \E d \in 1..10 : DigitChars[d] = s[k]

\* lines 200-202: int(retry_num) is evaluated, by the short circuit of `and`
\* and `or`, and raises ValueError
RetryRaises(s, headers) ==
    /\ ~s.allow_retry
    /\ ~(Has(headers, RETRY_REASON) /\ headers[RETRY_REASON] = "http_timeout")
    /\ Has(headers, RETRY_NUM)
    /\ ~IsDecimal(headers[RETRY_NUM])

\* data.get("type"), "None" when the body has no type
TypeOf(data) == IF Has(data, "type") THEN data.type ELSE "None"

\* lines 219-220: data.get("event") is None and None has no get
EventRaises(data) == TypeOf(data) = "event_callback" /\ ~Has(data, "event")

\* lines 220 and 239: event.get("text", "") is the null of the body and None
\* has no startswith
TextRaises(event) == Has(event, "text") /\ event.text = None

\* A bot test that looks at bot_id only
FromBotId(event) == Has(event, "bot_id")

\* line 224: the event comes from a bot
FromBot(event) ==
    \/ Has(event, "bot_id")
    \/ Has(event, "subtype") /\ event.subtype = "bot_message"

\* event.get("channel_type") == "im"
IsDirect(event) == Has(event, "channel_type") /\ event.channel_type = "im"

\* lines 231-237: the event types that are answered
Handled(event) ==
    \/ TypeOf(event) = "app_mention"
    \/ TypeOf(event) = "message" /\ IsDirect(event)

\* line 245: event.get("thread_ts", event.get("ts"))
ThreadOf(event) == IF Has(event, "thread_ts") THEN event.thread_ts ELSE event.ts

\* line 228 and line 252: the allow-list applies to the event
AllowListApplies(s, event) == Strip(s.allowed_channel) # <<>> /\ ~IsDirect(event)

\* An allow-list that lets the event through when the lookup fails
AllowedUnlessMismatch(allowed_channel_setting, lookup) ==
    lookup.outcome = "ok" => <<"#">> \o lookup.name = allowed_channel_setting

\* lines 255-259: the lookup returned and the channel is the allowed one
Allowed(allowed_channel_setting, lookup) ==
    /\ lookup.outcome = "ok"
    /\ <<"#">> \o lookup.name = allowed_channel_setting

\* A key that leaves the thread out
KeyOfChannel(ch, ts) == <<"s", "l", "a", "c", "k", "-">> \o ch

\* line 304: f"slack-{channel}-{thread_ts}"
key_to_check(ch, ts) ==
    <<"s", "l", "a", "c", "k", "-">> \o ch \o <<"-">> \o ts

\* The bytes of the characters a conversation id is made of, in hexadecimal
Utf8Code(c) ==
    CASE c = "c" -> "63"
      [] c = "0" -> "30" [] c = "1" -> "31" [] c = "2" -> "32" [] c = "3" -> "33"
      [] c = "4" -> "34" [] c = "5" -> "35" [] c = "6" -> "36" [] c = "7" -> "37"
      [] c = "8" -> "38" [] c = "9" -> "39"

\* s.encode("utf-8") and b.decode("utf-8") of a conversation id
Encode(s) == [k \in 1..Len(s) |-> Utf8Code(s[k])]
Decode(b) ==
    [k \in 1..Len(b) |-> CHOOSE c \in Digits \cup {"c"} : Utf8Code(c) = b[k]]

\* line 98, for a whole text: the lines from line k on, converted in order
RECURSIVE ConvertLines(_, _, _)
ConvertLines(flag, ls, k) ==
    IF k > Len(ls) THEN <<>>
    ELSE LET r == _convert_line(flag, ls[k])
         IN  <<r.line>> \o ConvertLines(r.in_code_block, ls, k + 1)

\* lines 104-107 of convert: the result when it can be encoded, else the
\* text the except branch returns
Encoded(t, result) ==
    IF Encodable("utf-8", result) THEN result ELSE Except(t.text).ret

\* lines 97-107 of convert, after the tables are extracted
LinePass(t) ==
    Encoded(t, Restore(Join(ConvertLines(FALSE, Split(t.text, NL), 1), <<NL>>),
                       t.repl))

\* SlackMarkdownConverter().convert(text), lines 472-473: a new instance
\* with the default encoding
Convert(seed, text) ==
    IF Falsy(text) THEN <<>>
    ELSE LinePass(_convert_tables(seed, Strip(text), <<>>))

\* line 477
MAX_MSG_LEN == 3000

\* A split that puts one character more into every chunk
ChunksOverlong(text) ==
    LET size == MAX_MSG_LEN + 1
        n == (Len(text) + size - 1) \div size
    IN  [k \in 1..n |->
            Slice(text, (k - 1) * size + 1,
                  Min({k * size, Len(text)}) + 1)]

\* lines 478-481: text[i : i + MAX_MSG_LEN] for i in
\* range(0, len(text), MAX_MSG_LEN)
Chunks(text) ==
    LET n == (Len(text) + MAX_MSG_LEN - 1) \div MAX_MSG_LEN
    IN  [k \in 1..n |->
            Slice(text, (k - 1) * MAX_MSG_LEN + 1,
                  Min({k * MAX_MSG_LEN, Len(text)}) + 1)]

\* A broadcast flag passed on to every chunk
BroadcastEveryChunk(flag, i) == flag

\* line 499: reply_broadcast if i == 0 else False
chunk_reply_broadcast(flag, i) == IF i = 0 THEN flag ELSE FALSE

----------------------------------------------------------------------------
(* The requests Slack sends and the answers of Slack, the storage and the app *)

\* The most requests of a run, by suite
MaxDeliveries == 3
MaxDeliveriesAllow == 2
MaxDeliveriesChunks == 1
MaxDeliveriesRequests == 2

DeliveriesOf(name) ==
    CASE name = "allow" -> MaxDeliveriesAllow
      [] name = "chunks" -> MaxDeliveriesChunks
      [] name = "requests" -> MaxDeliveriesRequests
      [] OTHER -> MaxDeliveries

\* Channel ids, message timestamps and the bot's id
C1 == <<"C", "1">>
C2 == <<"C", "2">>
D1 == <<"D", "1">>
TS1 == <<"1", ".", "1">>
TS2 == <<"1", ".", "2">>
TS9 == <<"1", ".", "9">>
BOT == <<"B", "1">>

\* The events: a mention in a channel, a mention in a thread, a direct
\* message, a message in a channel.  They carry no files.
Mention(ch, ts) == [type |-> "app_mention", channel |-> ch, ts |-> ts]

ThreadMention(ch, ts, root) ==
    [type |-> "app_mention", channel |-> ch, ts |-> ts, thread_ts |-> root]

Direct(ch, ts) ==
    [type |-> "message", channel_type |-> "im", channel |-> ch, ts |-> ts]

ChannelMessage(ch, ts) ==
    [type |-> "message", channel_type |-> "channel", channel |-> ch, ts |-> ts]

\* A message a bot posted through an incoming webhook
WebhookMessage(ch, ts) ==
    [type |-> "message", channel_type |-> "im", channel |-> ch, ts |-> ts,
     subtype |-> "bot_message"]

\* The event Slack sends for a message the endpoint itself posted
OwnPost(call) ==
    [type |-> "message",
     channel_type |-> IF call.channel = D1 THEN "im" ELSE "channel",
     channel |-> call.channel, ts |-> TS9, thread_ts |-> call.thread_ts,
     bot_id |-> BOT]

EventCallback(id, event) ==
    [type |-> "event_callback", event_id |-> id, event |-> event]

\* The request bodies of a suite, apart from the events of its own posts
Payloads(name) ==
    CASE name = "retries" ->
            {EventCallback(<<"Ev", 1>>, Mention(C1, TS1)),
             EventCallback(<<"Ev", 2>>, Direct(D1, TS1)),
             EventCallback(<<"Ev", 3>>, WebhookMessage(D1, TS2)),
             EventCallback(<<"Ev", 4>>, ChannelMessage(C1, TS2)),
             [type |-> "url_verification", challenge |-> "x"]}
      [] name = "threads" ->
            {EventCallback(<<"Ev", 1>>, Mention(C1, TS1)),
             EventCallback(<<"Ev", 2>>, ThreadMention(C1, TS2, TS1)),
             EventCallback(<<"Ev", 3>>, Mention(C2, TS1)),
             EventCallback(<<"Ev", 4>>, Mention(C1, TS2))}
      [] name = "allow" ->
            {EventCallback(<<"Ev", 1>>, Mention(C1, TS1)),
             EventCallback(<<"Ev", 2>>, Direct(D1, TS1))}
      [] name = "chunks" ->
            {EventCallback(<<"Ev", 1>>, Mention(C1, TS1))}
      [] name = "requests" ->
            {EventCallback(<<"Ev", 1>>, Mention(C1, TS1)),
             EventCallback(<<"Ev", 2>>, Mention(C1, TS2) @@ [text |-> None]),
             EventCallback(<<"Ev", 3>>, ChannelMessage(C1, TS2) @@ [text |-> None]),
             EventCallback(<<"Ev", 4>>, [channel |-> C1, ts |-> TS2]),
             [type |-> "event_callback", event_id |-> <<"Ev", 5>>],
             [type |-> "url_verification", challenge |-> "x"],
             [type |-> "app_rate_limited"],
             [challenge |-> "x"]}

\* The messages the endpoint has posted, as Slack sends them back
OwnPosts ==
    {EventCallback(<<"Own", k>>, OwnPost(calls[k])) :
        k \in {j \in 1..Len(calls) : calls[j].api = "chat_postMessage" /\ calls[j].ok}}

\* The settings of a suite
Settings(name) ==
    [allow_retry : IF name \in {"retries", "requests"} THEN BOOLEAN
                   ELSE IF name = "threads" THEN {TRUE} ELSE {FALSE},
     allowed_channel : IF name = "allow" THEN {<<>>, <<"#", "g", " ">>} ELSE {<<>>},
     first_reply_broadcast : IF name = "chunks" THEN BOOLEAN ELSE {FALSE}]

\* The reasons Slack gives for a retry
RetryReasons(name) ==
    IF name = "retries" THEN {"http_timeout", "http_error"} ELSE {"http_timeout"}

\* conversations_info: the channel's name, or an error
Lookups(name) ==
    IF name = "allow"
    THEN {[outcome |-> "ok", name |-> <<"g">>], [outcome |-> "ok", name |-> <<"r">>],
          [outcome |-> "SlackApiError"], [outcome |-> "Exception"]}
    ELSE {[outcome |-> "ok", name |-> <<"g">>]}

\* chat_postMessage succeeds or raises SlackApiError
PostOutcomes(name) == IF name \in {"allow", "chunks"} THEN BOOLEAN ELSE {TRUE}

\* storage.get succeeds or raises
GetOutcomes(name) == IF name = "threads" THEN BOOLEAN ELSE {TRUE}

\* conversations_replies: the messages of the thread by their authors, or
\* SlackApiError
Replies(name) ==
    IF name = "chunks"
    THEN {[outcome |-> "ok", messages |-> <<"user">>],
          [outcome |-> "ok", messages |-> <<"user", "bot">>],
          [outcome |-> "SlackApiError"]}
    ELSE {[outcome |-> "ok", messages |-> <<"user">>]}

\* An answer of n characters inside a code block
Listing(n) == [k \in 1..n |-> IF k <= 3 THEN BACKTICK ELSE IF k = 4 THEN NL ELSE "a"]

\* The answers of the app
Answers(name) ==
    IF name = "chunks"
    THEN {None,
          <<"*", "*", "b", "*", "*", " ">>,
          Listing(MAX_MSG_LEN) \o <<" ">>,
          Listing(MAX_MSG_LEN + 1),
          Listing(2 * MAX_MSG_LEN + 1)}
    ELSE {<<"*", "*", "b", "*", "*">>}

\* app.chat.invoke: it raises, or answers; the conversation it answers in
\* is the one it was given, or a new one
AppOutcomes(name) ==
    {[outcome |-> "raises"]} \cup
    {[outcome |-> "ok", answer |-> a] : a \in Answers(name)}

----------------------------------------------------------------------------
(* SlackEndpoint._invoke as a state machine *)

\* The headers of a request: none on the first delivery of a body, the
\* retry number and reason on every further delivery of it
SlackHeaders(data, reason) ==
    LET prior == Cardinality({k \in 1..Len(delivered) : delivered[k].data = data})
    IN  IF prior = 0 THEN [h \in {} |-> <<>>]
        ELSE (RETRY_NUM :> Str(prior)) @@ (RETRY_REASON :> reason)

\* The headers of the requests of a suite.  Those of "requests" are any
\* headers, whatever was delivered before.
HeadersOf(name, data) ==
    IF name = "requests"
    THEN {[h \in {} |-> <<>>],
          (RETRY_NUM :> <<"0">>),
          (RETRY_NUM :> <<"x">>),
          (RETRY_NUM :> <<"1">>) @@ (RETRY_REASON :> "http_error"),
          (RETRY_NUM :> <<"x">>) @@ (RETRY_REASON :> "http_timeout")}
    ELSE {SlackHeaders(data, reason) : reason \in RetryReasons(name)}

Ok == [status |-> 200, response |-> "ok"]

\* lines 199-249: a request arrives; the retry test, the challenge, the bot
\* test and the event types.  These lines are outside every try: the
\* ValueError of line 202 and the AttributeError of lines 220 and 239 leave
\* _invoke, and no Response is returned.
Receive(data, headers) ==
    /\ epc = "idle"
    /\ Len(delivered) < DeliveriesOf(suite)
    /\ LET r == [n |-> Len(delivered) + 1, headers |-> headers, data |-> data]
           retry_raises == RetryRaises(settings, headers)
           ignored == ~retry_raises /\ IgnoredRetry(settings, headers)
           callback == /\ ~retry_raises
                       /\ ~ignored
                       /\ TypeOf(data) = "event_callback"
           answered == /\ callback
                       /\ ~EventRaises(data)
                       /\ ~FromBot(data.event)
                       /\ Handled(data.event)
           raises == \/ retry_raises
                     \/ callback /\ EventRaises(data)
                     \/ answered /\ TextRaises(data.event)
       IN  /\ delivered' = Append(delivered, r)
           /\ request' = r
           /\ IF raises
              THEN /\ epc' = "raised"
                   /\ UNCHANGED <<channel, thread_ts, response>>
              ELSE IF answered
              THEN /\ channel' = data.event.channel
                   /\ thread_ts' = ThreadOf(data.event)
                   /\ epc' = "allowed_channel"
                   /\ UNCHANGED response
              ELSE /\ response' =
                         IF ~ignored /\ TypeOf(data) = "url_verification"
                         THEN [status |-> 200, response |-> "challenge"]
                         ELSE Ok
                   /\ epc' = "responded"
                   /\ UNCHANGED <<channel, thread_ts>>
    /\ UNCHANGED <<settings, storage, calls, next_id, conversation_id,
                   thread_history, answer, converted_answer, chunks, chunk_i,
                   reply_broadcast>>
    /\ UNCHANGED <<converter_vars, suite, handler_vars>>

\* lines 251-300: the allow-list.  lookup is what conversations_info gives,
\* p1 and p2 whether the notices get posted.
CheckAllowedChannel(lookup, p1, p2) ==
    /\ epc = "allowed_channel"
    /\ LET allowed_channel_setting == Strip(settings.allowed_channel)
           info == IF lookup.outcome = "ok"
                   THEN [n |-> request.n, api |-> "conversations_info",
                         channel |-> channel, ok |-> TRUE, name |-> lookup.name]
                   ELSE [n |-> request.n, api |-> "conversations_info",
                         channel |-> channel, ok |-> FALSE]
           Notice(ok) == [n |-> request.n, api |-> "chat_postMessage",
                          kind |-> "notice", channel |-> channel,
                          thread_ts |-> thread_ts, ok |-> ok]
       IN  IF ~AllowListApplies(settings, request.data.event)
           THEN /\ epc' = "storage"
                /\ UNCHANGED <<calls, response>>
           ELSE IF Allowed(allowed_channel_setting, lookup)
           THEN /\ epc' = "storage"
                /\ calls' = Append(calls, info)
                /\ UNCHANGED response
           ELSE /\ calls' = calls \o <<info>>
                              \o (IF lookup.outcome = "ok" /\ ~p1
                                  THEN <<Notice(p1), Notice(p2)>>
                                  ELSE <<Notice(p1)>>)
                /\ response' = Ok
                /\ epc' = "responded"
    /\ UNCHANGED <<settings, storage, delivered, next_id, request, channel,
                   thread_ts, conversation_id, thread_history, answer,
                   converted_answer, chunks, chunk_i, reply_broadcast>>
    /\ UNCHANGED <<converter_vars, suite, handler_vars>>

\* lines 302-309: the stored conversation of the thread, None when there is
\* none or the read raises
GetConversation(get_ok) ==
    /\ epc = "storage"
    /\ LET key == key_to_check(channel, thread_ts)
       IN  /\ calls' = Append(calls, [n |-> request.n, api |-> "storage.get",
                                      key |-> key, ok |-> get_ok])
           /\ conversation_id' =
                  IF get_ok /\ key \in DOMAIN storage THEN storage[key] ELSE None
    /\ epc' = "history"
    /\ UNCHANGED <<settings, storage, delivered, next_id, request, channel,
                   thread_ts, thread_history, answer, converted_answer, chunks,
                   chunk_i, reply_broadcast, response>>
    /\ UNCHANGED <<converter_vars, suite, handler_vars>>

\* lines 312-385: the thread's messages and the names of its users.  When
\* conversations_replies raises, user_id_list is unbound at line 350 and the
\* NameError goes to the handler of line 519.
GetThreadHistory(replies) ==
    /\ epc = "history"
    /\ LET fetch == [n |-> request.n, api |-> "conversations_replies",
                     channel |-> channel, ts |-> thread_ts,
                     ok |-> replies.outcome = "ok"]
           names == [n |-> request.n, api |-> "users_info", ok |-> TRUE]
       IN  IF replies.outcome = "ok"
           THEN /\ calls' = calls \o
                       <<[fetch EXCEPT !.ok = TRUE] @@
                         [messages |-> Len(replies.messages)], names>>
                /\ thread_history' = replies.messages
                /\ epc' = "invoke"
           ELSE /\ calls' = Append(calls, fetch)
                /\ thread_history' = <<>>
                /\ epc' = "except"
    /\ UNCHANGED <<settings, storage, delivered, next_id, request, channel,
                   thread_ts, conversation_id, answer, converted_answer, chunks,
                   chunk_i, reply_broadcast, response>>
    /\ UNCHANGED <<converter_vars, suite, handler_vars>>

\* lines 431-469: the app is invoked, in the stored conversation when there
\* is one, and the conversation it answers in is stored
InvokeApp(app) ==
    /\ epc = "invoke"
    /\ LET key == key_to_check(channel, thread_ts)
           given == IF conversation_id # None THEN Decode(conversation_id) ELSE None
           invoke == [n |-> request.n, api |-> "app.chat.invoke",
                      channel |-> channel, thread_ts |-> thread_ts,
                      conversation_id |-> given, ok |-> app.outcome = "ok"]
           returned == IF given # None THEN given ELSE <<"c">> \o Str(next_id)
       IN  IF app.outcome = "ok"
           THEN /\ answer' = app.answer
                /\ conversation_id' = returned
                /\ next_id' = IF given = None THEN next_id + 1 ELSE next_id
                /\ storage' = (key :> Encode(returned)) @@ storage
                /\ calls' = calls \o
                       <<invoke,
                         [n |-> request.n, api |-> "storage.set", key |-> key,
                          value |-> Encode(returned), ok |-> TRUE]>>
                /\ epc' = "convert"
           ELSE /\ calls' = Append(calls, invoke)
                /\ epc' = "except"
                /\ UNCHANGED <<answer, conversation_id, next_id, storage>>
    /\ UNCHANGED <<settings, delivered, request, channel, thread_ts,
                   thread_history, converted_answer, chunks, chunk_i,
                   reply_broadcast, response>>
    /\ UNCHANGED <<converter_vars, suite, handler_vars>>

\* lines 471-487: the answer is converted and cut into chunks
ConvertAnswer ==
    /\ epc = "convert"
    /\ converted_answer' = Convert(hashseed, answer)
    /\ chunks' = Chunks(converted_answer')
    /\ reply_broadcast' = (settings.first_reply_broadcast /\ Len(thread_history) = 1)
    /\ chunk_i' = 0
    /\ epc' = "post"
    /\ UNCHANGED <<settings, storage, calls, delivered, next_id, request,
                   channel, thread_ts, conversation_id, thread_history, answer,
                   response>>
    /\ UNCHANGED <<converter_vars, suite, handler_vars>>

\* lines 489-507 and 513-518: the next chunk is posted; SlackApiError ends
\* the loop and the call
PostChunk(ok) ==
    /\ epc = "post"
    /\ chunk_i < Len(chunks)
    /\ calls' = Append(calls,
           [n |-> request.n, api |-> "chat_postMessage", kind |-> "chunk",
            channel |-> channel, thread_ts |-> thread_ts,
            text |-> chunks[chunk_i + 1],
            reply_broadcast |-> chunk_reply_broadcast(reply_broadcast, chunk_i),
            ok |-> ok])
    /\ IF ok
       THEN /\ chunk_i' = chunk_i + 1
            /\ UNCHANGED <<epc, response>>
       ELSE /\ response' = [status |-> 200,
                            response |-> "Error sending message to Slack"]
            /\ epc' = "responded"
            /\ UNCHANGED chunk_i
    /\ UNCHANGED <<settings, storage, delivered, next_id, request, channel,
                   thread_ts, conversation_id, thread_history, answer,
                   converted_answer, chunks, reply_broadcast>>
    /\ UNCHANGED <<converter_vars, suite, handler_vars>>

\* lines 509-511: every chunk is posted
ReturnOk ==
    /\ epc = "post"
    /\ chunk_i = Len(chunks)
    /\ response' = Ok
    /\ epc' = "responded"
    /\ UNCHANGED <<settings, storage, calls, delivered, next_id, request,
                   channel, thread_ts, conversation_id, thread_history, answer,
                   converted_answer, chunks, chunk_i, reply_broadcast>>
    /\ UNCHANGED <<converter_vars, suite, handler_vars>>

\* lines 519-537: an exception of lines 302-518 is reported to the thread
HandleException(ok) ==
    /\ epc = "except"
    /\ calls' = Append(calls,
           [n |-> request.n, api |-> "chat_postMessage", kind |-> "error",
            channel |-> channel, thread_ts |-> thread_ts, ok |-> ok])
    /\ response' = [status |-> 200, response |-> "An error occurred"]
    /\ epc' = "responded"
    /\ UNCHANGED <<settings, storage, delivered, next_id, request, channel,
                   thread_ts, conversation_id, thread_history, answer,
                   converted_answer, chunks, chunk_i, reply_broadcast>>
    /\ UNCHANGED <<converter_vars, suite, handler_vars>>

\* The Response goes back to Slack, or the exception to the caller of
\* _invoke; the locals of the call are gone
Finish ==
    /\ epc \in {"responded", "raised"}
    /\ epc' = "idle"
    /\ request' = NoRequest
    /\ channel' = <<>>
    /\ thread_ts' = <<>>
    /\ conversation_id' = None
    /\ thread_history' = <<>>
    /\ answer' = None
    /\ converted_answer' = <<>>
    /\ chunks' = <<>>
    /\ chunk_i' = 0
    /\ reply_broadcast' = FALSE
    /\ response' = NoResponse
    /\ UNCHANGED <<settings, storage, calls, delivered, next_id>>
    /\ UNCHANGED <<converter_vars, suite, handler_vars>>

NextEndpoint ==
    \/ /\ epc = "idle"
       /\ \E data \in Payloads(suite) \cup OwnPosts :
             \E headers \in HeadersOf(suite, data) : Receive(data, headers)
    \/ /\ epc = "allowed_channel"
       /\ \E lookup \in Lookups(suite) :
             \E p1, p2 \in PostOutcomes(suite) : CheckAllowedChannel(lookup, p1, p2)
    \/ epc = "storage" /\ \E get_ok \in GetOutcomes(suite) : GetConversation(get_ok)
    \/ epc = "history" /\ \E replies \in Replies(suite) : GetThreadHistory(replies)
    \/ epc = "invoke" /\ \E app \in AppOutcomes(suite) : InvokeApp(app)
    \/ ConvertAnswer
    \/ epc = "post" /\ \E ok \in PostOutcomes(suite) : PostChunk(ok)
    \/ ReturnOk
    \/ epc = "except" /\ \E ok \in PostOutcomes(suite) : HandleException(ok)
    \/ Finish

\* An endpoint with the settings of a suite, before its first request
InitEndpoint(name) ==
    /\ suite = name
    /\ hashseed = 0
    /\ encoding = "utf-8"
    /\ in_code_block = FALSE
    /\ table_replacements = <<>>
    /\ Idle
    /\ settings \in Settings(name)
    /\ storage = <<>>
    /\ calls = <<>>
    /\ delivered = <<>>
    /\ next_id = 1
    /\ EndpointIdle
    /\ NoHandlers

InitRetries == InitEndpoint("retries")
SpecRetries == InitRetries /\ [][NextEndpoint]_vars

InitThreads == InitEndpoint("threads")
SpecThreads == InitThreads /\ [][NextEndpoint]_vars

InitAllow == InitEndpoint("allow")
SpecAllow == InitAllow /\ [][NextEndpoint]_vars

InitChunks == InitEndpoint("chunks")
SpecChunks == InitChunks /\ [][NextEndpoint]_vars

InitRequests == InitEndpoint("requests")
SpecRequests == InitRequests /\ [][NextEndpoint]_vars

----------------------------------------------------------------------------
(* Lines 471-473 of calls of _invoke that run at the same time *)

\* The answers the app gives to the calls: none, an open code block, plain
\* emphasis, a table
HandlerAnswers ==
    {None,
     <<BACKTICK, BACKTICK, BACKTICK, NL, "*", "a", "*">>,
     <<"*", "a", "*", NL, "*", "a", "*">>,
     <<"|", "a", "|", NL, "|", "-", "|", NL, "*", "a", "*">>}

\* One converter object that every call uses
OneConverter(objects) == 1

\* line 472: SlackMarkdownConverter() is a new object, not one of those
\* there are
NewConverter(objects) == Len(objects) + 1

\* __init__ (lines 29-31): the attributes of a new converter
Constructed ==
    [encoding |-> "utf-8", in_code_block |-> FALSE, table_replacements |-> <<>>]

\* line 464: the app's answer is the call's local `answer`
GetAnswer(w, a) ==
    /\ workers[w].pc = "start"
    /\ workers' = [workers EXCEPT ![w].pc = "answered", ![w].answer = a]
    /\ UNCHANGED instances
    /\ UNCHANGED <<converter_vars, suite, endpoint_vars>>

\* line 472: converter = SlackMarkdownConverter()
Construct(w) ==
    /\ workers[w].pc = "answered"
    /\ LET id == NewConverter(instances)
       IN  /\ instances' = IF id > Len(instances)
                           THEN Append(instances, Constructed)
                           ELSE [instances EXCEPT ![id] = Constructed]
           /\ workers' = [workers EXCEPT ![w].pc = "constructed",
                                         ![w].converter = id]
    /\ UNCHANGED <<converter_vars, suite, endpoint_vars>>

\* line 473 and lines 87-97: converter.convert(answer) up to the split
ConvertCall(w) ==
    /\ workers[w].pc = "constructed"
    /\ LET self == workers[w].converter
           a == workers[w].answer
       IN  IF Falsy(a)
           THEN /\ workers' = [workers EXCEPT ![w].pc = "done", ![w].ret = <<>>]
                /\ UNCHANGED instances
           ELSE /\ instances' =
                      [instances EXCEPT ![self].table_replacements =
                           _convert_tables(hashseed, Strip(a), <<>>).repl]
                /\ workers' =
                      [workers EXCEPT
                          ![w].pc = "lines",
                          ![w].markdown = _convert_tables(hashseed, Strip(a), <<>>).text,
                          ![w].lines = Split(_convert_tables(hashseed, Strip(a), <<>>).text, NL),
                          ![w].idx = 1,
                          ![w].converted_lines = <<>>]
    /\ UNCHANGED <<converter_vars, suite, endpoint_vars>>

\* line 98: self._convert_line(line) for the call's next line
ConvertNextLine(w) ==
    /\ workers[w].pc = "lines"
    /\ workers[w].idx <= Len(workers[w].lines)
    /\ LET self == workers[w].converter
           r == _convert_line(instances[self].in_code_block,
                              workers[w].lines[workers[w].idx])
       IN  /\ instances' = [instances EXCEPT ![self].in_code_block = r.in_code_block]
           /\ workers' = [workers EXCEPT
                             ![w].converted_lines = Append(@, r.line),
                             ![w].idx = NextLine(@)]
    /\ UNCHANGED <<converter_vars, suite, endpoint_vars>>

\* lines 99-107: join, restore the placeholders, encode and return
ConvertReturn(w) ==
    /\ workers[w].pc = "lines"
    /\ workers[w].idx > Len(workers[w].lines)
    /\ LET self == workers[w].converter
           result == Restore(Join(workers[w].converted_lines, <<NL>>),
                             instances[self].table_replacements)
       IN  workers' =
              [workers EXCEPT
                  ![w].ret = IF Encodable(instances[self].encoding, result)
                             THEN result
                             ELSE Except(workers[w].markdown).ret,
                  ![w].pc = IF \/ Encodable(instances[self].encoding, result)
                               \/ ~Except(workers[w].markdown).escaped
                            THEN "done" ELSE "raised"]
    /\ UNCHANGED instances
    /\ UNCHANGED <<converter_vars, suite, endpoint_vars>>

\* The calls take their steps in any order
NextHandlers ==
    \/ \E w \in Handlers : \E a \in HandlerAnswers : GetAnswer(w, a)
    \/ \E w \in Handlers : Construct(w)
    \/ \E w \in Handlers : ConvertCall(w)
    \/ \E w \in Handlers : ConvertNextLine(w)
    \/ \E w \in Handlers : ConvertReturn(w)

InitHandlers ==
    /\ suite = "handlers"
    /\ hashseed = 0
    /\ encoding = "utf-8"
    /\ in_code_block = FALSE
    /\ table_replacements = <<>>
    /\ Idle
    /\ EndpointUnused
    /\ NoHandlers

SpecHandlers == InitHandlers /\ [][NextHandlers]_vars

----------------------------------------------------------------------------
(* The properties *)

\* The lines of the text convert works on, as the caller wrote them
InputLines == Split(Strip(arg), NL)

\* The lines of the returned text
OutputLines == Split(ret, NL)

\* The positions of the fence lines among ls
FenceLines(ls) == {i \in 1..Len(ls) : FenceMatch(ls[i])}

\* Fence line i of ls opens a block: an even number of fence lines precede it
Opens(ls, i) ==
    i \in FenceLines(ls) /\ Cardinality({j \in FenceLines(ls) : j < i}) % 2 = 0

\* The fence line that closes the block fence line i opens, 0 when none does
Closer(ls, i) ==
    LET later == {j \in FenceLines(ls) : j > i}
    IN  IF later = {} THEN 0 ELSE Min(later)

\* run occurs in ls as consecutive lines
IsRun(ls, run) ==
    \E o \in 0..(Len(ls) - Len(run)) : \A k \in 1..Len(run) : ls[o + k] = run[k]

\* A call of convert on a text has returned
Returned == pc = "done" /\ ~Falsy(arg)

\* C1: every call of convert on a reused instance starts its line pass with
\* the code-block flag false, whatever the earlier calls were given.
C1_FreshFlagPerCall == (pc = "lines" /\ idx = 1) => in_code_block = FALSE

\* C2: when convert returns through its except branch, it returns the
\* argument exactly as the caller passed it: not trimmed, no table replaced
\* by a placeholder token.
C2_FallbackReturnsArgument == (pc = "done" /\ fellback) => ret = arg

\* C3: in a call that starts outside a code block, the lines between an
\* opening fence line and its closing fence line appear in the output as
\* they were in the input, consecutive and unchanged.
C3_FencedLinesUnchanged ==
    (Returned /\ ~entry_flag) =>
        \A i \in 1..Len(InputLines) :
            (Opens(InputLines, i) /\ Closer(InputLines, i) > 0) =>
                IsRun(OutputLines,
                      SubSeq(InputLines, i + 1, Closer(InputLines, i) - 1))

\* The marks of the tokens convert inserts
TokenMarks == {TABLE_PREFIX, triple_start, triple_end}

\* C4: a successful return holds no token mark that the input did not hold:
\* every placeholder and every sentinel the call inserted has been resolved.
C4_NoTokenLeft ==
    (Returned /\ ~fellback) =>
        \A m \in TokenMarks : Contains(ret, m) => Contains(arg, m)

\* C5: a step of the line pass flips the code-block flag exactly when its
\* line is a fence line; an opening fence line is emitted as it is, tag
\* included, a closing one as the bare fence; no other line changes the flag.
C5_FenceToggle ==
    [][(pc = "lines" /\ idx' = idx + 1) =>
          IF FenceMatch(lines[idx])
          THEN /\ in_code_block' = ~in_code_block
               /\ converted_lines'[idx] =
                      IF in_code_block THEN FENCE ELSE lines[idx]
          ELSE in_code_block' = in_code_block]_vars

\* C5's case: a closing fence line that carried a tag has been emitted bare
C5_TaggedCloseSeen ==
    /\ pc = "lines"
    /\ idx > 2
    /\ lines[idx - 1] = FENCE \o <<"p", "y">>
    /\ converted_lines[idx - 1] = FENCE
    /\ lines[idx - 2] = converted_lines[idx - 2]
    /\ lines[idx - 2] = FENCE \o <<"p", "y">>
    /\ ~in_code_block

\* C6: in a call that starts outside a code block, on a text whose last
\* fence line opens a block no line closes, the flag is true at the return
\* and the lines after that fence line are returned as they were.
C6_UnmatchedFencePassthrough ==
    (Returned /\ ~entry_flag /\ Cardinality(FenceLines(InputLines)) % 2 = 1) =>
        LET last == Max(FenceLines(InputLines))
            rest == SubSeq(InputLines, last + 1, Len(InputLines))
        IN  /\ in_code_block
            /\ Len(OutputLines) >= Len(rest)
            /\ SubSeq(OutputLines, Len(OutputLines) - Len(rest) + 1,
                      Len(OutputLines)) = rest

\* s is a str
IsStr(s) == s # None /\ DOMAIN s = 1..Len(s)

\* C7: every call of convert returns, with a str, by the converted text or
\* by the except branch; no exception leaves convert.
C7_ConvertReturns ==
    /\ [](~escaped /\ pc # "raised" /\ (pc = "done" => IsStr(ret)))
    /\ (pc = "lines") ~> (pc = "done")

\* C7's case: a call on a text of several lines has returned by the except
\* branch
C7_FallbackReturnSeen == pc = "done" /\ fellback /\ Len(lines) > 1 /\ IsStr(ret)

\* The characters of the markdown syntax the rules and the table pattern
\* recognise
MarkdownChars ==
    Digits \cup {"*", "_", "#", "-", "[", "]", "(", ")", "!", ">", "~", "|", "%",
                 ".", ":", BACKTICK}

\* A text of several lines without markdown syntax
PlainText(s) ==
    /\ s # None
    /\ Contains(s, <<NL>>)
    /\ \A k \in 1..Len(s) : s[k] \notin MarkdownChars

\* s.strip() with the trailing whitespace of every line removed as well
StripLines(s) ==
    LET ls == Split(Strip(s), NL)
    IN  Join([k \in 1..Len(ls) |-> RStrip(ls[k])], <<NL>>)

\* C8 as stated: convert returns a plain text of several lines as s.strip()
C8_PlainIsStrip == (pc = "done" /\ PlainText(arg)) => ret = Strip(arg)

\* C8, amended: convert returns a plain text of several lines as s.strip()
\* with the trailing whitespace of every line removed too; it returns
\* s.strip() itself when the call starts inside a code block an earlier call
\* left open, or when the encoding cannot encode the text.
C8_PlainIsStripLines ==
    (pc = "done" /\ PlainText(arg)) =>
        ret = IF entry_flag \/ ~Encodable(encoding, StripLines(arg))
              THEN Strip(arg) ELSE StripLines(arg)

\* C8's case: a plain text came back without the whitespace that ended one
\* of its interior lines
C8_InteriorLineTrimmed ==
    /\ pc = "done"
    /\ PlainText(arg)
    /\ ~entry_flag
    /\ ret = StripLines(arg)
    /\ ret # Strip(arg)

\* C9: no token generated for a table of the text occurs in the text the
\* caller passed.
C9_TokenNotInInput ==
    (pc = "lines" /\ idx = 1) =>
        \A k \in 1..Len(table_replacements) :
            ~Contains(arg, table_replacements[k].placeholder)

\* line is a placeholder token of the running conversion
IsToken(line) ==
    \E k \in 1..Len(table_replacements) : table_replacements[k].placeholder = line

\* C10: outside a code block (no fence line has been met in this call), a
\* line that is no token of this conversion went through the rewrite rules:
\* if it came back unchanged, the rules leave it unchanged.
C10_PassthroughOnlyForTokens ==
    (/\ pc = "lines"
     /\ idx > 1
     /\ ~entry_flag
     /\ FenceLines(SubSeq(lines, 1, idx - 1)) = {}
     /\ ~IsToken(lines[idx - 1])
     /\ converted_lines[idx - 1] = lines[idx - 1]) =>
        Rewrite(lines[idx - 1]) = lines[idx - 1]

\* The table blocks table_pattern.sub finds in s from position p on, in order:
\* each with the position of its first character and the position after it
RECURSIVE TableBlocks(_, _)
TableBlocks(s, p) ==
    LET hits == {q \in p..Len(s) : TableMatchEnd(s, q) > 0}
    IN  IF hits = {} THEN <<>>
        ELSE <<[start |-> Min(hits), end |-> TableMatchEnd(s, Min(hits))]>>
             \o TableBlocks(s, TableMatchEnd(s, Min(hits)))

\* The rows of a table block: its lines that are not blank
TableRows(block) ==
    LET ls == Split(block, NL)
        RECURSIVE Keep(_)
        Keep(k) == IF k > Len(ls) THEN <<>>
                   ELSE (IF Strip(ls[k]) = <<>> THEN <<>> ELSE <<ls[k]>>)
                        \o Keep(k + 1)
    IN  Keep(1)

\* The cells of a row: the text between its outer bars split at the bars,
\* each cell trimmed
RowCells(row) ==
    LET r == Strip(row)
        cells == Split(Slice(r, 2, Len(r)), "|")
    IN  [k \in 1..Len(cells) |-> Strip(cells[k])]

\* A table block as it is to be rendered: the header row in bold, no line
\* for the separator row, one line for each data row
TableText(block) ==
    LET rows == TableRows(block)
        header == RowCells(rows[1])
        sep == <<" ", "|", " ">>
    IN  Join(<<Join([k \in 1..Len(header) |-> Bold(header[k])], sep)>>
             \o [k \in 1..(Len(rows) - 2) |-> Join(RowCells(rows[k + 2]), sep)],
             <<NL>>)

\* C11: every table block found (a header row, a separator row and the data
\* rows) is rendered as the trimmed header cells, each between asterisks and
\* joined by " | ", then one line for each data row with its trimmed cells
\* joined by " | "; the separator row gives no line and the empty cells that
\* the outer bars produce are dropped.
C11_TableRendered ==
    (pc = "lines" /\ idx = 1) =>
        LET s == Strip(arg)
            blocks == TableBlocks(s, 1)
        IN  Len(table_replacements) = Len(blocks) =>
                \A k \in 1..Len(blocks) :
                    table_replacements[k].table =
                        TableText(Slice(s, blocks[k].start, blocks[k].end))

\* C11's case: a table whose header row is followed by a space has been
\* rendered
C11_HeaderWithTrailingSpaceSeen ==
    /\ pc = "lines"
    /\ idx = 1
    /\ Len(table_replacements) = 1
    /\ StartsWith(arg, <<"|", "a", "|", "b", "|", " ", NL, "|", "-", "|">>)

\* The length of the run of asterisks that starts at position q
StarRun(s, q) == Min({k \in q..(Len(s) + 1) : k > Len(s) \/ s[k] # "*"}) - q

\* The lengths of the maximal runs of asterisks of s from position p on
RECURSIVE StarRuns(_, _)
StarRuns(s, p) ==
    LET stars == {q \in p..Len(s) : s[q] = "*"}
    IN  IF stars = {} THEN <<>>
        ELSE <<StarRun(s, Min(stars))>>
             \o StarRuns(s, Min(stars) + StarRun(s, Min(stars)))

\* The runs pair up as emphasis spans: ***both***, *italic*, and **bold**
\* that may hold *italic* spans
RECURSIVE SpansClosed(_, _)
SpansClosed(runs, in_bold) ==
    IF runs = <<>> THEN ~in_bold
    ELSE IF Head(runs) = 2 THEN SpansClosed(Tail(runs), ~in_bold)
    ELSE IF Len(runs) >= 2 /\ Head(runs) = 1 /\ runs[2] = 1
    THEN SpansClosed(Tail(Tail(runs)), in_bold)
    ELSE IF Len(runs) >= 2 /\ Head(runs) = 3 /\ runs[2] = 3 /\ ~in_bold
    THEN SpansClosed(Tail(Tail(runs)), in_bold)
    ELSE FALSE

\* A line of words and closed emphasis spans, with no other markup
EmphasisLine(line) ==
    /\ \A k \in 1..Len(line) : line[k] \in {"*", " ", "b", "i", "x"}
    /\ StarRuns(line, 1) # <<>>
    /\ SpansClosed(StarRuns(line, 1), FALSE)

\* The mrkdwn of an emphasis line: ** becomes *, * becomes _, and *** becomes
\* *_ where it opens a span and _* where it closes one
RECURSIVE Emphasis(_, _, _)
Emphasis(s, p, open) ==
    LET stars == {q \in p..Len(s) : s[q] = "*"}
    IN  IF stars = {} THEN From(s, p)
        ELSE LET q == Min(stars)
                 n == StarRun(s, q)
                 mark == CASE n = 1 -> <<"_">>
                           [] n = 2 -> <<"*">>
                           [] n = 3 -> IF open THEN <<"_", "*">> ELSE <<"*", "_">>
                           [] OTHER -> Slice(s, q, q + n)
             IN  Slice(s, p, q) \o mark
                 \o Emphasis(s, q + n, IF n = 3 THEN ~open ELSE open)

\* A heading line of level 1 whose text holds no asterisk
PlainHeading(line) ==
    /\ StartsWith(line, <<"#", " ">>)
    /\ Len(line) > 2
    /\ \A k \in 3..Len(line) : line[k] \in WordChars

\* C12: outside code blocks the bold and italic rules do not take each
\* other's markers: on a line of closed emphasis spans **bold** becomes
\* *bold*, *italic* becomes _italic_, ***both*** becomes *_both_*, and an
\* italic span inside a bold span becomes italic inside bold; the
\* single-asterisk bold a heading is rewritten to is not rewritten again to
\* underscore italic.
C12_EmphasisKept ==
    (/\ pc = "lines"
     /\ idx > 1
     /\ ~entry_flag
     /\ FenceLines(SubSeq(lines, 1, idx - 1)) = {}) =>
        LET line == lines[idx - 1]
            out == converted_lines[idx - 1]
        IN  /\ EmphasisLine(line) => out = Emphasis(line, 1, FALSE)
            /\ PlainHeading(line) => out = <<"*">> \o From(line, 3) \o <<"*">>

\* C12's case: a bold span that holds an italic span, then a heading, have
\* been rewritten
C12_NestedAndHeadingSeen ==
    /\ pc = "lines"
    /\ idx = 3
    /\ lines[1] = <<"*", "*", "b", " ", "*", "i", "*", " ", "b", "*", "*">>
    /\ converted_lines[1] = <<"*", "b", " ", "_", "i", "_", " ", "b", "*">>
    /\ lines[2] = <<"#", " ", "h">>
    /\ converted_lines[2] = <<"*", "h", "*">>

\* C13: convert called with the empty string or with None returns the empty
\* string, raises nothing and runs no stage of the pipeline: the stored
\* replacements, the code-block flag and the locals of the pipeline are as
\* they were.
C13_EmptyInputReturnsEmpty ==
    [][(pc = "idle" /\ pc' # "idle" /\ arg' \in {<<>>, None}) =>
          /\ pc' = "done"
          /\ ret' = <<>>
          /\ ~escaped' /\ ~fellback'
          /\ UNCHANGED <<in_code_block, table_replacements, markdown, lines,
                         converted_lines>>]_vars

\* C13's case: convert(None) has returned on an instance that still holds
\* the table and the open code block of an earlier call
C13_NoneAfterTableSeen ==
    /\ pc = "done"
    /\ arg = None
    /\ ret = <<>>
    /\ table_replacements # <<>>
    /\ in_code_block

\* A line that is a table row: a bar at its start, at least one character,
\* a bar, then nothing but spaces
IsRowLine(line) ==
    /\ Len(RStrip(line)) >= 3
    /\ line[1] = "|"
    /\ line[Len(RStrip(line))] = "|"

\* A row line that is a separator row
IsSepLine(line) ==
    /\ IsRowLine(line)
    /\ \A k \in 2..(Len(RStrip(line)) - 1) : line[k] \in {"-", ":", "|", " "}

\* Line i of ls starts a table block: a header row with a separator row on
\* the next line
StartsBlock(ls, i) == i < Len(ls) /\ IsRowLine(ls[i]) /\ IsSepLine(ls[i + 1])

\* The last line of the table block whose rows reach line i
RECURSIVE BlockLast(_, _)
BlockLast(ls, i) ==
    IF i < Len(ls) /\ IsRowLine(ls[i + 1]) THEN BlockLast(ls, i + 1) ELSE i

\* The lines from line i on with every table block replaced by one line that
\* stands for its placeholder; every other line as it is
RECURSIVE Framed(_, _)
Framed(ls, i) ==
    IF i > Len(ls) THEN <<>>
    ELSE IF StartsBlock(ls, i)
    THEN <<[table |-> TRUE, line |-> <<>>]>> \o Framed(ls, BlockLast(ls, i + 1) + 1)
    ELSE <<[table |-> FALSE, line |-> ls[i]]>> \o Framed(ls, i + 1)

\* C14: table extraction changes table blocks only.  The text handed to the
\* line pass holds one placeholder line for each block of consecutive table
\* lines, and every other line of the input, blank lines before and after a
\* table included, unchanged and in order; a header row and a separator row
\* that are not on consecutive lines are left as they are.
C14_OnlyTableBlocksReplaced ==
    (pc = "lines" /\ idx = 1) =>
        LET framed == Framed(InputLines, 1)
        IN  /\ Len(lines) = Len(framed)
            /\ \A k \in 1..Len(framed) :
                   IF framed[k].table THEN LooksLikePlaceholder(lines[k])
                   ELSE lines[k] = framed[k].line

\* C14's case: a table followed by a blank line and a line of text has been
\* extracted
C14_TableThenBlankSeen ==
    /\ pc = "lines"
    /\ idx = 1
    /\ arg = <<"|", "a", "|", NL, "|", "-", "|", NL, NL, "x">>
    /\ Len(table_replacements) = 1

\* Delivery n made a call to api
Called(n, api) == \E k \in 1..Len(calls) : calls[k].n = n /\ calls[k].api = api

\* The headers of a retry, as the retry test is stated
RetryHeaders(headers) ==
    \/ Has(headers, RETRY_REASON) /\ headers[RETRY_REASON] = "http_timeout"
    \/ Has(headers, RETRY_NUM) /\ headers[RETRY_NUM] # <<"0">>

\* C15: with allow_retry off, a request that carries the retry reason
\* http_timeout or a retry number above 0 is answered 200 "ok" with no call
\* to Slack, to the storage or to the app; so of the deliveries of one event,
\* the original and its retries, at most one invokes the app and at most one
\* posts a reply.
C15_RetriesIgnored ==
    /\ [][(/\ epc = "idle" /\ epc' # "idle"
           /\ ~settings.allow_retry
           /\ RetryHeaders(request'.headers)) =>
             /\ epc' = "responded"
             /\ response' = Ok
             /\ UNCHANGED <<calls, storage, next_id>>]_vars
    /\ [](~settings.allow_retry =>
             \A i, j \in 1..Len(delivered) :
                 delivered[i].data = delivered[j].data =>
                     /\ (Called(i, "app.chat.invoke") /\ Called(j, "app.chat.invoke"))
                            => i = j
                     /\ (Called(i, "chat_postMessage") /\ Called(j, "chat_postMessage"))
                            => i = j)

\* C15's case: an event answered on its first delivery has come twice more,
\* once for another reason than a timeout, and nothing was done for the
\* retries
C15_RetriesAfterReplySeen ==
    /\ ~settings.allow_retry
    /\ Len(delivered) = 3
    /\ delivered[2].data = delivered[1].data
    /\ delivered[3].data = delivered[1].data
    /\ delivered[2].headers[RETRY_REASON] = "http_error"
    /\ delivered[3].headers[RETRY_NUM] = <<"2">>
    /\ epc = "responded"
    /\ response = Ok
    /\ Called(1, "app.chat.invoke")
    /\ Called(1, "chat_postMessage")
    /\ \A k \in 1..Len(calls) : calls[k].n = 1

\* The body of a request holds an event that a bot produced
BotEvent(data) ==
    /\ data.type = "event_callback"
    /\ \/ Has(data.event, "bot_id")
       \/ Has(data.event, "subtype") /\ data.event.subtype = "bot_message"

\* C16: an event that carries a bot_id or the subtype bot_message never
\* causes a call of the app, a write to the storage or a posted message: the
\* request is answered "ok" at once and no call is ever made for it; the
\* events of the endpoint's own posts are among these.
C16_BotEventsIgnored ==
    /\ [][(epc = "idle" /\ epc' # "idle" /\ BotEvent(request'.data)) =>
             /\ epc' = "responded"
             /\ response' = Ok
             /\ UNCHANGED <<calls, storage, next_id>>]_vars
    /\ [](\A k \in 1..Len(calls) :
             /\ ~BotEvent(delivered[calls[k].n].data)
             /\ delivered[calls[k].n].data \notin OwnPosts)

\* C16's case: the answer the endpoint posted to a direct message has come
\* back as an event and was ignored, and so was the message of a webhook
C16_OwnPostIgnoredSeen ==
    /\ epc = "responded"
    /\ Len(delivered) = 3
    /\ delivered[2].data \in OwnPosts
    /\ IsDirect(delivered[2].data.event)
    /\ delivered[3].data = EventCallback(<<"Ev", 3>>, WebhookMessage(D1, TS2))
    /\ ~Has(delivered[3].headers, RETRY_NUM)
    /\ response = Ok
    /\ Called(1, "chat_postMessage")
    /\ \A k \in 1..Len(calls) : calls[k].n = 1

\* The channel and the thread of the event of a call
CallChannel(k) == delivered[calls[k].n].data.event.channel
CallThread(k) == ThreadOf(delivered[calls[k].n].data.event)

\* The writes to the storage made before call k for the thread of call k
WritesBefore(k) ==
    {j \in 1..(k - 1) :
        /\ calls[j].api = "storage.set"
        /\ CallChannel(j) = CallChannel(k)
        /\ CallThread(j) = CallThread(k)}

\* The read of the storage made for call k
ReadBefore(k) == Max({g \in 1..(k - 1) : calls[g].api = "storage.get"})

\* C17: the conversation id the app returns is stored under the key
\* "slack-" channel "-" thread_ts, thread_ts being the event's ts when it has
\* none; when the read of the storage succeeds, an event is sent to the app
\* with the id stored last for its channel and thread, and never with an id
\* stored for another channel or thread.
C17_ConversationPerThread ==
    \A k \in 1..Len(calls) :
        /\ calls[k].api = "storage.set" =>
               /\ calls[k].key = <<"s", "l", "a", "c", "k", "-">> \o CallChannel(k)
                                  \o <<"-">> \o CallThread(k)
               /\ calls[k - 1].api = "app.chat.invoke"
               /\ calls[k - 1].n = calls[k].n
        /\ calls[k].api = "app.chat.invoke" =>
               /\ calls[ReadBefore(k)].n = calls[k].n
               /\ calls[ReadBefore(k)].ok =>
                      calls[k].conversation_id =
                          IF WritesBefore(k) = {} THEN None
                          ELSE Decode(calls[Max(WritesBefore(k))].value)
               /\ \A j \in 1..(k - 1) :
                      (/\ calls[j].api = "storage.set"
                       /\ Decode(calls[j].value) = calls[k].conversation_id) =>
                          j \in WritesBefore(k)
               /\ (calls[k].ok /\ calls[k].conversation_id # None) =>
                      calls[k + 1].value = Encode(calls[k].conversation_id)

\* C17's case: a thread got a second conversation after a failed read, and
\* a later event of the thread was sent to the app with that second id
C17_LatestIdUsedSeen ==
    \E k \in 1..Len(calls) :
        /\ calls[k].api = "app.chat.invoke"
        /\ calls[k].n = 3
        /\ calls[k].conversation_id = <<"c", "2">>
        /\ Cardinality(WritesBefore(k)) = 2
        /\ delivered[3].data.event = ThreadMention(C1, TS2, TS1)
        /\ delivered[1].data.event = Mention(C1, TS1)

\* The calls of delivery n to api
CallsOf(n, api) == {k \in 1..Len(calls) : calls[k].n = n /\ calls[k].api = api}

\* The lookup of delivery n returned the name of the allowed channel
LookupPassed(n) ==
    \E k \in CallsOf(n, "conversations_info") :
        calls[k].ok /\ <<"#">> \o calls[k].name = Strip(settings.allowed_channel)

\* Delivery n brought an event the allow-list is to check: the setting is
\* not empty and the event is no direct message
Checked(n) ==
    /\ delivered[n].data.type = "event_callback"
    /\ Strip(settings.allowed_channel) # <<>>
    /\ ~IsDirect(delivered[n].data.event)

\* C18: the allow-list fails closed.  For an event it is to check, the app
\* is invoked and the storage used only when the lookup of the channel name
\* succeeded and "#" + name is the setting; after a mismatch or a failed
\* lookup the post of a notice is made and the call returns "ok" with no
\* call of the app and no conversation id written.  No lookup is made for a
\* direct message.
C18_AllowListFailsClosed ==
    \A n \in 1..Len(delivered) :
        /\ (/\ Checked(n)
            /\ \/ Called(n, "app.chat.invoke")
               \/ Called(n, "storage.set")
               \/ Called(n, "storage.get")) => LookupPassed(n)
        /\ (Called(n, "conversations_info") /\ ~LookupPassed(n)) =>
               /\ ~Called(n, "app.chat.invoke")
               /\ ~Called(n, "storage.set")
               /\ \E k \in CallsOf(n, "chat_postMessage") :
                      calls[k].kind = "notice"
               /\ request.n = n => (epc = "responded" /\ response = Ok)
        /\ Called(n, "conversations_info") => Checked(n)

\* C18's case: with an allowed channel set, a mention in another channel was
\* turned away with a notice that was posted at the second attempt, and a
\* direct message was then passed to the app without a lookup
C18_RejectedThenDirectSeen ==
    /\ Strip(settings.allowed_channel) = <<"#", "g">>
    /\ Len(delivered) = 2
    /\ delivered[1].data.event = Mention(C1, TS1)
    /\ \E k \in CallsOf(1, "conversations_info") :
           calls[k].ok /\ calls[k].name = <<"r">>
    /\ Cardinality(CallsOf(1, "chat_postMessage")) = 2
    /\ ~Called(1, "app.chat.invoke")
    /\ IsDirect(delivered[2].data.event)
    /\ Called(2, "app.chat.invoke")
    /\ ~Called(2, "conversations_info")

\* Call k posts a chunk of the answer
ChunkCall(k) == calls[k].api = "chat_postMessage" /\ calls[k].kind = "chunk"

\* The chunks delivery n has posted among the first k calls, joined in the
\* order of the calls
RECURSIVE PostedText(_, _)
PostedText(n, k) ==
    IF k = 0 THEN <<>>
    ELSE PostedText(n, k - 1)
         \o (IF calls[k].n = n /\ ChunkCall(k) /\ calls[k].ok
             THEN calls[k].text ELSE <<>>)

\* C19: every chunk posted is not empty and at most 3000 characters long;
\* the chunks are posted in order, so that what has been posted is the
\* beginning of the converted answer; and when the call has returned, the
\* posted chunks together are the converted answer exactly when every post
\* succeeded.
C19_ChunksCoverAnswer ==
    /\ \A k \in 1..Len(calls) :
           ChunkCall(k) => Len(calls[k].text) \in 1..MAX_MSG_LEN
    /\ request.n > 0 =>
           LET posted == PostedText(request.n, Len(calls))
           IN  /\ posted = Slice(converted_answer, 1, Len(posted) + 1)
               /\ epc = "responded" =>
                      (posted = converted_answer <=>
                          \A k \in 1..Len(calls) :
                              (calls[k].n = request.n /\ ChunkCall(k)) => calls[k].ok)

\* C19's case: an answer of more than two full chunks has been posted in
\* three chunks and the call has returned
C19_ThreeChunksSeen ==
    /\ epc = "responded"
    /\ response = Ok
    /\ Len(converted_answer) = 2 * MAX_MSG_LEN + 1
    /\ Len(chunks) = 3
    /\ Cardinality({k \in 1..Len(calls) : ChunkCall(k) /\ calls[k].ok}) = 3
    /\ PostedText(request.n, Len(calls)) = converted_answer

\* C20: only the first chunk of an answer can be posted with reply_broadcast
\* true, and only when first_reply_broadcast is on and the thread history
\* that was fetched holds exactly one message; every later chunk is posted
\* with reply_broadcast false.
C20_BroadcastFirstChunkOnly ==
    \A k \in 1..Len(calls) :
        (ChunkCall(k) /\ calls[k].reply_broadcast) =>
            /\ \A j \in 1..(k - 1) : ~(calls[j].n = calls[k].n /\ ChunkCall(j))
            /\ settings.first_reply_broadcast
            /\ \E h \in CallsOf(calls[k].n, "conversations_replies") :
                   calls[h].ok /\ calls[h].messages = 1

\* C20's case: the first chunk went out as a broadcast, the second did not
C20_SecondChunkQuietSeen ==
    \E k \in 2..Len(calls) :
        /\ ChunkCall(k) /\ ~calls[k].reply_broadcast
        /\ ChunkCall(k - 1) /\ calls[k - 1].reply_broadcast
        /\ calls[k - 1].n = calls[k].n

----------------------------------------------------------------------------
(* C22 *)

\* C22: every request, whatever its headers and its JSON body (any event
\* type, with or without an event object, any retry headers), ends with a
\* Response of status 200, and no exception leaves _invoke.
C22_AlwaysStatus200 ==
    /\ epc # "raised"
    /\ epc = "responded" => response.status = 200

\* A first delivery of an event_callback body without an event object has
\* left _invoke with an exception, and so has a request whose retry number
\* is not a number
C22_MissingEventRaisedSeen ==
    /\ epc = "raised"
    /\ request.n = 2
    /\ EventRaises(request.data)
    /\ request.headers = [h \in {} |-> <<>>]
    /\ ~RetryRaises(settings, request.headers)
    /\ RetryRaises(settings, delivered[1].headers)
    /\ calls = <<>>

----------------------------------------------------------------------------
(* C21 *)

\* C21: conversions of calls that run at the same time are isolated.  Each
\* call has a converter of its own; a step of one call leaves the code-block
\* flag and the placeholder map of every other call's converter as they
\* were; and each call gets the output its answer gives on a converter
\* used by nobody else.
C21_ConversionsIsolated ==
    /\ [](\A v, w \in Handlers :
             v # w /\ workers[v].converter # 0 /\ workers[w].converter # 0
                => workers[v].converter # workers[w].converter)
    /\ [](\A w \in Handlers :
             /\ workers[w].pc # "raised"
             /\ workers[w].pc = "done"
                   => workers[w].ret = Convert(hashseed, workers[w].answer))
    /\ [][\A w \in Handlers :
             workers'[w] = workers[w] /\ workers[w].converter # 0
                => instances'[workers[w].converter] = instances[workers[w].converter]]_vars

\* Two conversions are under way together, each past its first line: one is
\* inside the code block it opened, the other has a table in its placeholder
\* map and is outside every code block
C21_TwoConversionsUnderWaySeen ==
    /\ workers[1].pc = "lines" /\ workers[2].pc = "lines"
    /\ workers[1].answer = <<BACKTICK, BACKTICK, BACKTICK, NL, "*", "a", "*">>
    /\ workers[2].answer = <<"|", "a", "|", NL, "|", "-", "|", NL, "*", "a", "*">>
    /\ workers[1].idx = 2 /\ workers[2].idx = 2
    /\ instances[workers[1].converter].in_code_block
    /\ instances[workers[1].converter].table_replacements = <<>>
    /\ ~instances[workers[2].converter].in_code_block
    /\ instances[workers[2].converter].table_replacements # <<>>
====
